---- MODULE Spec2Model ----
(***************************************************************************)
(* Playback session engine of the music bot: QueueService (per-guild       *)
(* queue, current track, history, loop mode), the VoiceService glue that   *)
(* turns audio-player state changes into 'trackStart' / 'trackEnd' /       *)
(* 'trackError' events, and the slash commands that drive both.            *)
(*                                                                         *)
(* JavaScript runs every handler to its next await without interleaving,   *)
(* so one action is one synchronous run of a handler.  An async play       *)
(* command (VoiceService.playYouTubeAudio) is a record in voice[g].plays   *)
(* that remembers at which of its two awaits it is suspended.              *)
(***************************************************************************)
EXTENDS Integers, Sequences, FiniteSets, TLC

\* ---------------------------------------------------------------- bounds
MaxTracks == 2      \* tracks enqueued over a run (track ids 1..MaxTracks)
MaxTime == 1        \* the clock runs 0..MaxTime
MaxPlays == 2       \* play commands suspended at the same time, per guild

\* ------------------------------------------------------------- constants
MAX_HISTORY_SIZE == 50
NoDate == -1        \* a null Date (startedAt / pausedAt : Date | null)

Guilds == {"g1", "g2"}
LoopModes == {"none", "track", "queue"}
TrackIds == 1..MaxTracks

VARIABLES
    members,    \* guilds whose members can send commands to the bot
    now,        \* the wall clock read by new Date()
    nextId,     \* identity of the next QueuedTrack object addToQueue creates
    queues,     \* QueueService.queues : guildId -> GuildQueue (NoQueue: absent)
    voice,      \* VoiceService.connections / players and the suspended plays
    joined,     \* play commands past joinChannel, addToQueue not yet called
    skipreq,    \* skip commands issued by a user and not yet executed
    sync,       \* the synchronous continuation of the player's error path
    playcmd,    \* the /play command awaiting the addToQueue that installed
                \* its track, and the await its play command is suspended at
    last,       \* the latest step: its handler and guild, the current track it
                \* found, the transport commands it issued, in order
    cache       \* FileCacheService: the files of the cache directory, the
                \* lookups and the clean-up suspended at an await

vars == <<members, now, nextId, queues, voice, joined, skipreq, sync, playcmd, last, cache>>

\* ------------------------------------------------------------ data model
\* TrackState as addToQueue and the Queue-loop re-append create it
InitialState ==
    [startedAt |-> NoDate, pausedAt |-> NoDate, totalPausedDuration |-> 0,
     isPaused |-> FALSE, wasSkipped |-> FALSE]

\* currentTrack = null
NoTrack == [id |-> 0, state |-> InitialState]

NewTrack(i) == [id |-> i, state |-> InitialState]

\* queues.get(guildId) = undefined
NoQueue == [exists |-> FALSE]

\* the GuildQueue getOrCreateQueue installs (lastActivity is written on
\* every access and read nowhere: it is left out)
EmptyQueue ==
    [exists |-> TRUE, tracks |-> <<>>, currentTrack |-> NoTrack,
     isPlaying |-> FALSE, trackHistory |-> <<>>, loopMode |-> "none"]

\* getOrCreateQueue making a new session on every call
getOrCreateQueue_alwaysNew(qs, g) == EmptyQueue

getOrCreateQueue(qs, g) == IF qs[g].exists THEN qs[g] ELSE EmptyQueue

\* no connection, no player, nothing suspended
NoPlays == [fetch |-> 0, wait |-> 0]
NoVoice ==
    [connection |-> FALSE, player |-> "none", stopping |-> FALSE,
     plays |-> NoPlays, stale |-> NoPlays]

\* play commands not yet returned
Suspended(v) == v.plays.fetch + v.plays.wait + v.stale.fetch + v.stale.wait

\* transport commands, as QueueService issues them
PlayCmd(g, t) == [cmd |-> "play", guild |-> g, track |-> t.id, skipped |-> t.state.wasSkipped]
StopCmd(g, t) == [cmd |-> "stop", guild |-> g, track |-> t.id, skipped |-> t.state.wasSkipped]
LeaveCmd(g) == [cmd |-> "leave", guild |-> g, track |-> 0, skipped |-> FALSE]

\* what the latest step was
Did(op, g, cmds) ==
    [op |-> op, guild |-> g, cmds |-> cmds, result |-> "ok", report |-> <<>>,
     found |-> IF queues[g].exists THEN queues[g].currentTrack.id ELSE 0,
     skipped |-> queues[g].exists /\ queues[g].currentTrack.state.wasSkipped]

\* a handler's result: the queue it leaves, the commands it issued, and the
\* AppResult it reports: ok, or the ErrorType of its err(...)
Res(q, cmds) == [q |-> q, cmds |-> cmds, result |-> "ok"]
Fail(q, type) == [q |-> q, cmds |-> <<>>, result |-> type]

\* no /play command is awaiting its addToQueue
NoPlayCmd == [guild |-> "", track |-> 0, stage |-> ""]

\* /play after its addToQueue has returned: position = queue.tracks.length
\* (0 without a queue), shown as "Now Playing" when 0 and as #position else
position(q) == IF q.exists THEN Len(q.tracks) ELSE 0
Reply(t, q) == <<[track |-> t, position |-> position(q)]>>

\* --------------------------------------------------------- QueueService
\* addToHistory putting the track in front of the history
addToHistory_front(q, track) ==
    LET pushed == <<track.id>> \o q.trackHistory
    IN [q EXCEPT !.trackHistory =
            IF Len(pushed) > MAX_HISTORY_SIZE THEN Tail(pushed) ELSE pushed]

\* addToHistory without the eviction
addToHistory_noEvict(q, track) ==
    [q EXCEPT !.trackHistory = Append(q.trackHistory, track.id)]

\* A history entry is never read or written again by the service: the entry
\* keeps the identity of the QueuedTrack pushed.
addToHistory(q, track) ==
    LET pushed == Append(q.trackHistory, track.id)
    IN [q EXCEPT !.trackHistory =
            IF Len(pushed) > MAX_HISTORY_SIZE THEN Tail(pushed) ELSE pushed]

\* playNextTrack reading the head of pending without removing it
playNextTrack_peeks(g, q) ==
    IF Len(q.tracks) = 0
    THEN Res([q EXCEPT !.currentTrack = NoTrack, !.isPlaying = FALSE], <<>>)
    ELSE Res([q EXCEPT !.currentTrack = Head(q.tracks), !.isPlaying = TRUE],
             <<PlayCmd(g, Head(q.tracks))>>)

\* playNextTrack with the empty branch forgetting isPlaying = false
playNextTrack_keepsPlaying(g, q) ==
    IF Len(q.tracks) = 0
    THEN Res([q EXCEPT !.currentTrack = NoTrack], <<>>)
    ELSE Res([q EXCEPT !.tracks = Tail(q.tracks),
                       !.currentTrack = Head(q.tracks),
                       !.isPlaying = TRUE],
             <<PlayCmd(g, Head(q.tracks))>>)

\* playYouTubeAudio catches everything it awaits and returns an AppResult, so
\* the catch of playNextTrack never runs: a failed play leaves the queue as is.
playNextTrack(g, q) ==
    IF Len(q.tracks) = 0
    THEN Res([q EXCEPT !.currentTrack = NoTrack, !.isPlaying = FALSE], <<>>)
    ELSE LET nextTrack == Head(q.tracks)
         IN Res([q EXCEPT !.tracks = Tail(q.tracks),
                          !.currentTrack = nextTrack,
                          !.isPlaying = TRUE],
                <<PlayCmd(g, nextTrack)>>)

\* handleTrackEnd treating loop mode Track like None
handleTrackEnd_trackAdvances(g, q, isError) ==
    IF ~q.exists \/ q.currentTrack = NoTrack THEN Res(q, <<>>)
    ELSE playNextTrack(g,
            IF q.currentTrack.state.wasSkipped \/ q.loopMode # "queue"
            THEN addToHistory(q, q.currentTrack)
            ELSE [q EXCEPT !.tracks = Append(q.tracks,
                      [q.currentTrack EXCEPT !.state = InitialState])])

\* handleTrackEnd re-appending under Queue without resetting the state
handleTrackEnd_keepsState(g, q, isError) ==
    IF ~q.exists \/ q.currentTrack = NoTrack THEN Res(q, <<>>)
    ELSE LET endedTrack == q.currentTrack
         IN IF ~endedTrack.state.wasSkipped /\ q.loopMode = "track" /\ ~isError
            THEN Res(q, <<PlayCmd(g, endedTrack)>>)
            ELSE playNextTrack(g,
                    IF endedTrack.state.wasSkipped THEN addToHistory(q, endedTrack)
                    ELSE CASE q.loopMode = "track" -> q
                           [] q.loopMode = "queue" ->
                                [q EXCEPT !.tracks = Append(q.tracks, endedTrack)]
                           [] q.loopMode = "none" -> addToHistory(q, endedTrack))

\* handleTrackEnd replaying a Track-looped track after an error as well
handleTrackEnd_errorReplays(g, q, isError) ==
    IF ~q.exists \/ q.currentTrack = NoTrack THEN Res(q, <<>>)
    ELSE LET endedTrack == q.currentTrack
         IN IF ~endedTrack.state.wasSkipped /\ q.loopMode = "track"
            THEN Res(q, <<PlayCmd(g, endedTrack)>>)
            ELSE playNextTrack(g,
                    IF endedTrack.state.wasSkipped \/ q.loopMode = "none"
                    THEN addToHistory(q, endedTrack)
                    ELSE [q EXCEPT !.tracks = Append(q.tracks,
                              [endedTrack EXCEPT !.state = InitialState])])

\* handleTrackEnd applying the loop mode without looking at wasSkipped
handleTrackEnd_ignoresSkip(g, q, isError) ==
    IF ~q.exists \/ q.currentTrack = NoTrack THEN Res(q, <<>>)
    ELSE LET endedTrack == q.currentTrack
         IN IF q.loopMode = "track" /\ ~isError
            THEN Res(q, <<PlayCmd(g, endedTrack)>>)
            ELSE playNextTrack(g,
                    CASE q.loopMode = "track" -> q
                      [] q.loopMode = "queue" ->
                           [q EXCEPT !.tracks = Append(q.tracks,
                                [endedTrack EXCEPT !.state = InitialState])]
                      [] q.loopMode = "none" -> addToHistory(q, endedTrack))

handleTrackEnd(g, q, isError) ==
    IF ~q.exists \/ q.currentTrack = NoTrack THEN Res(q, <<>>)
    ELSE LET endedTrack == q.currentTrack
         IN IF ~endedTrack.state.wasSkipped /\ q.loopMode = "track" /\ ~isError
            THEN Res(q, <<PlayCmd(g, endedTrack)>>)
            ELSE LET q1 ==
                       IF endedTrack.state.wasSkipped THEN addToHistory(q, endedTrack)
                       ELSE CASE q.loopMode = "track" -> q
                              [] q.loopMode = "queue" ->
                                   [q EXCEPT !.tracks = Append(q.tracks,
                                        [endedTrack EXCEPT !.state = InitialState])]
                              [] q.loopMode = "none" -> addToHistory(q, endedTrack)
                 IN playNextTrack(g, q1)

\* handleTrackStart starting the pause account afresh
handleTrackStart_resetsPaused(q) ==
    IF q.exists /\ q.currentTrack # NoTrack
    THEN [q EXCEPT !.currentTrack.state.startedAt = now,
                   !.currentTrack.state.isPaused = FALSE,
                   !.currentTrack.state.totalPausedDuration = 0]
    ELSE q

handleTrackStart(q) ==
    IF q.exists /\ q.currentTrack # NoTrack
    THEN [q EXCEPT !.currentTrack.state.startedAt = now,
                   !.currentTrack.state.isPaused = FALSE]
    ELSE q

handleTrackPause(q) ==
    IF q.exists /\ q.currentTrack # NoTrack
    THEN [q EXCEPT !.currentTrack.state.pausedAt = now,
                   !.currentTrack.state.isPaused = TRUE]
    ELSE q

\* handleTrackResume storing the latest pause instead of adding it
handleTrackResume_overwrites(q) ==
    IF q.exists /\ q.currentTrack # NoTrack
    THEN LET st == q.currentTrack.state
         IN [q EXCEPT !.currentTrack.state.totalPausedDuration =
                          IF st.pausedAt # NoDate THEN now - st.pausedAt
                          ELSE st.totalPausedDuration,
                      !.currentTrack.state.pausedAt = NoDate,
                      !.currentTrack.state.isPaused = FALSE]
    ELSE q

handleTrackResume(q) ==
    IF q.exists /\ q.currentTrack # NoTrack
    THEN LET st == q.currentTrack.state
         IN [q EXCEPT !.currentTrack.state.totalPausedDuration =
                          IF st.pausedAt # NoDate
                          THEN st.totalPausedDuration + (now - st.pausedAt)
                          ELSE st.totalPausedDuration,
                      !.currentTrack.state.pausedAt = NoDate,
                      !.currentTrack.state.isPaused = FALSE]
    ELSE q

processQueue(g, q) ==
    IF Len(q.tracks) = 0
    THEN Fail([q EXCEPT !.isPlaying = FALSE, !.currentTrack = NoTrack], "Validation")
    ELSE LET track == Head(q.tracks)
         IN Res([q EXCEPT !.tracks = Tail(q.tracks),
                          !.currentTrack = track,
                          !.isPlaying = TRUE],
                <<PlayCmd(g, track)>>)

\* addToQueue starting the queue whether or not something is playing
addToQueue_alwaysStarts(g, q0, i) ==
    processQueue(g, [q0 EXCEPT !.tracks = Append(q0.tracks, NewTrack(i))])

addToQueue(g, q0, i) ==
    LET q == [q0 EXCEPT !.tracks = Append(q0.tracks, NewTrack(i))]
    IN IF ~q.isPlaying THEN processQueue(g, q) ELSE Res(q, <<>>)

\* skipTrack stopping the transport before it sets the flag
skipTrack_stopsFirst(g, q) ==
    IF ~q.exists \/ ~q.isPlaying THEN Fail(q, "Validation")
    ELSE Res(IF q.currentTrack # NoTrack
             THEN [q EXCEPT !.currentTrack.state.wasSkipped = TRUE]
             ELSE q,
             <<StopCmd(g, q.currentTrack)>>)

\* skipTrack checking only that the session exists
skipTrack_ignoresIdle(g, q) ==
    IF ~q.exists THEN Fail(q, "Validation")
    ELSE Res(IF q.currentTrack # NoTrack
             THEN [q EXCEPT !.currentTrack.state.wasSkipped = TRUE]
             ELSE q,
             <<StopCmd(g, q.currentTrack)>>)

\* skipTrack setting the flag and leaving the transport alone
skipTrack_noStop(g, q) ==
    IF ~q.exists \/ ~q.isPlaying THEN Fail(q, "Validation")
    ELSE Res(IF q.currentTrack # NoTrack
             THEN [q EXCEPT !.currentTrack.state.wasSkipped = TRUE]
             ELSE q,
             <<>>)

\* the queue is absent or not playing: a Validation error, nothing changes
skipTrack(g, q) ==
    IF ~q.exists \/ ~q.isPlaying THEN Fail(q, "Validation")
    ELSE LET q1 == IF q.currentTrack # NoTrack
                   THEN [q EXCEPT !.currentTrack.state.wasSkipped = TRUE]
                   ELSE q
         IN Res(q1, <<StopCmd(g, q1.currentTrack)>>)

\* clearQueue reporting success when it finds no session
clearQueue_absentOk(g, q) ==
    IF ~q.exists THEN Res(q, <<>>)
    ELSE Res(NoQueue, <<StopCmd(g, q.currentTrack), LeaveCmd(g)>>)

\* clearQueue forgetting to delete the registry entry
clearQueue_keepsQueue(g, q) ==
    IF ~q.exists THEN Fail(q, "Validation")
    ELSE Res(q, <<StopCmd(g, q.currentTrack), LeaveCmd(g)>>)

\* clearQueue leaving the channel without stopping the player first
clearQueue_leavesOnly(g, q) ==
    IF ~q.exists THEN Fail(q, "Validation")
    ELSE Res(NoQueue, <<LeaveCmd(g)>>)

\* the map entry after clearQueue, and the commands on the way
clearQueue(g, q) ==
    IF ~q.exists THEN Fail(q, "Validation")
    ELSE Res(NoQueue, <<StopCmd(g, q.currentTrack), LeaveCmd(g)>>)

\* setLoopMode creating the session it does not find
setLoopMode_creates(q, mode) ==
    IF ~q.exists THEN [EmptyQueue EXCEPT !.loopMode = mode]
    ELSE [q EXCEPT !.loopMode = mode]

\* setLoopMode emptying the pending sequence along the way
setLoopMode_dropsPending(q, mode) ==
    IF ~q.exists THEN q ELSE [q EXCEPT !.loopMode = mode, !.tracks = <<>>]

setLoopMode(q, mode) ==
    IF ~q.exists THEN q ELSE [q EXCEPT !.loopMode = mode]

\* the AppResult of setLoopMode: err Validation without a queue, else ok(mode)
setLoopModeResult(q) == IF ~q.exists THEN "Validation" ELSE "ok"

\* --------------------------------------------------------- VoiceService
\* playYouTubeAudio up to its first await: rejected at once without a
\* connection and a player, else suspended in getAudioUrlForVideo
playYouTubeAudio(v, c) ==
    IF ~v.connection \/ v.player = "none" THEN v
    ELSE [v EXCEPT !.plays.fetch = v.plays.fetch + 1]

\* player.stop(): nothing on an idle player; else the resource is told to end
\* (silence padding): the player leaves Playing on a later audio cycle
stopPlayback(v) ==
    IF v.player \in {"none", "Idle"} THEN v ELSE [v EXCEPT !.stopping = TRUE]

\* stop, destroy the connection, forget connection and player; the plays
\* still suspended keep their reference to the forgotten player
\* (a forgotten player has lost its only subscriber: createAudioPlayer()
\* defaults to pausing without subscribers, so it never goes Playing -> Idle
\* and emits no 'trackEnd' for the guild)
leaveChannel(v) ==
    IF ~v.connection THEN v
    ELSE [connection |-> FALSE, player |-> "none", stopping |-> FALSE,
          plays |-> NoPlays,
          stale |-> [fetch |-> v.stale.fetch + v.plays.fetch,
                     wait |-> v.stale.wait + v.plays.wait]]

Transport(v, c) ==
    CASE c.cmd = "play" -> playYouTubeAudio(v, c)
      [] c.cmd = "stop" -> stopPlayback(v)
      [] c.cmd = "leave" -> leaveChannel(v)

RECURSIVE Issue(_, _)
Issue(v, cmds) ==
    IF cmds = <<>> THEN v ELSE Issue(Transport(v, Head(cmds)), Tail(cmds))

\* ------------------------------------------------------ FileCacheService
CacheMaxTime == 2   \* the cache's clock runs 0..CacheMaxTime hours
MaxAgeHours == 1    \* cleanOldEntries is called with 1..MaxAgeHours
MaxLookups == 2     \* calls of getVideoInfoWithAudio under way at a time
YtMaxTime == 8      \* the clock of the resolver's cache runs 0..YtMaxTime hours

HourMs == 60 * 60 * 1000
CACHE_CLEANUP_INTERVAL == 6 * HourMs
CACHE_MAX_AGE_HOURS == 6
Keys == {"k1"}      \* track locators looked up (each has its own cache file)
Values == {"a", "b"}        \* VideoInfo as the resolver returns it
Callers == 1..MaxLookups

\* no file for the key (readFile fails with ENOENT)
NoFile == [present |-> FALSE, data |-> "", createdAt |-> 0, accessedAt |-> 0]

\* the CacheEntry that set writes
CacheEntry(value, t) ==
    [present |-> TRUE, data |-> value, createdAt |-> t, accessedAt |-> t]

\* get refreshing createdAt together with accessedAt
touch_resetsCreated(e, t) == [e EXCEPT !.accessedAt = t, !.createdAt = t]

\* get: cacheEntry.accessedAt = Date.now() on the entry parsed
touch(e, t) == [e EXCEPT !.accessedAt = t]

\* no lookup is under way for the caller; entry is the CacheEntry a get or
\* a set holds while its writeFile is under way
NoLookup == [stage |-> "none", key |-> "", entry |-> NoFile]

\* cleanOldEntries is not running
NoClean == [stage |-> "none", maxAgeMs |-> 0, now |-> 0, files |-> {}, file |-> ""]

\* an empty cache directory; timer is the time the next clean-up of
\* YouTubeService is due (0: the one its constructor starts).  The other
\* fields tell the latest cache step:
\* op, the key, the caller (0: the clean-up or the clock), what a get returned
\* (value "" is null: a miss; error: its ErrorType), and what
\* getVideoInfoWithAudio returned in this step, if it did (ret: "ok" with the
\* VideoInfo info, or the ErrorType of its err)
NoCache ==
    [files |-> [k \in Keys |-> NoFile],
     lookup |-> [c \in Callers |-> NoLookup],
     clean |-> NoClean,
     timer |-> 0,
     op |-> "", key |-> "", who |-> 0, value |-> "", error |-> "",
     ret |-> "", info |-> ""]

\* the AppResult of a cache operation, and of getVideoInfoWithAudio
Got(value) == [value |-> value, error |-> ""]
GotError == [value |-> "", error |-> "FileSystem"]
Pending == [stage |-> "resolve", ret |-> "", info |-> ""]
Returns(ret, info) == [stage |-> "none", ret |-> ret, info |-> info]

\* getVideoInfoWithAudio handing the error of the cache to its caller
afterGet_returnsError(got) ==
    IF got.error # "" THEN Returns(got.error, "")
    ELSE IF got.value # "" THEN Returns("ok", got.value)
    ELSE Pending

\* getVideoInfoWithAudio after cacheService.get: a hit is returned, anything
\* else (ok(null) or an err) goes on to youtube-dl
afterGet(got) ==
    IF got.error = "" /\ got.value # "" THEN Returns("ok", got.value) ELSE Pending

\* getVideoInfoWithAudio handing the error of set to its caller
afterSet_returnsError(set, videoInfo) ==
    IF set.error # "" THEN Returns(set.error, "") ELSE Returns("ok", videoInfo)

\* getVideoInfoWithAudio after cacheService.set: the result of set is not
\* looked at
afterSet(set, videoInfo) == Returns("ok", videoInfo)

\* ------------------------------------------------------------------ Init
Init ==
    /\ cache = NoCache
    /\ members = {"g1"}
    /\ now = 0
    /\ nextId = 1
    /\ queues = [g \in Guilds |-> NoQueue]
    /\ voice = [g \in Guilds |-> NoVoice]
    /\ joined = [g \in Guilds |-> 0]
    /\ skipreq = [g \in Guilds |-> <<>>]
    /\ sync = ""
    /\ playcmd = NoPlayCmd
    /\ last = Did("Init", "g1", <<>>)

\* --------------------------------------------------------------- actions
Idle == sync = ""

\* tracks not yet handed to addToQueue
Budget == nextId + joined["g1"] + joined["g2"] <= MaxTracks

\* a handler ran on guild g: it left queue q and issued cmds to the transport
Ran(op, g, q, cmds) ==
    /\ queues' = [queues EXCEPT ![g] = q]
    /\ voice' = [voice EXCEPT ![g] = Issue(voice[g], cmds)]
    /\ Suspended(voice'[g]) <= MaxPlays
    /\ last' = Did(op, g, cmds)

\* a clear that empties the whole registry (queues.clear()) instead of
\* deleting the guild's entry
Reported_clearsAll(op, g, r, cmds) ==
    /\ queues' = IF queues[g].exists /\ ~r.q.exists THEN [h \in Guilds |-> NoQueue]
                 ELSE [queues EXCEPT ![g] = r.q]
    /\ voice' = [voice EXCEPT ![g] = Issue(voice[g], cmds)]
    /\ Suspended(voice'[g]) <= MaxPlays
    /\ last' = [Did(op, g, cmds) EXCEPT !.result = r.result]

\* the same for a service method whose AppResult r.result is kept
Reported(op, g, r, cmds) ==
    /\ queues' = [queues EXCEPT ![g] = r.q]
    /\ voice' = [voice EXCEPT ![g] = Issue(voice[g], cmds)]
    /\ Suspended(voice'[g]) <= MaxPlays
    /\ last' = [Did(op, g, cmds) EXCEPT !.result = r.result]

\* the awaited /play has its play command suspended at this await of guild g
Awaited(g, stage) == playcmd.guild = g /\ playcmd.stage = stage

\* one of the n play commands suspended at an await moves on to the next:
\* the awaited one does if it is the only one there, else it may be the one
PlayMoves(g, from, to, n) ==
    IF ~Awaited(g, from) THEN {playcmd}
    ELSE IF n = 1 THEN {[playcmd EXCEPT !.stage = to]}
    ELSE {playcmd, [playcmd EXCEPT !.stage = to]}

\* one of the n play commands suspended at an await returns
PlayReturns(g, from, n) ==
    IF ~Awaited(g, from) THEN {playcmd}
    ELSE IF n = 1 THEN {NoPlayCmd}
    ELSE {playcmd, NoPlayCmd}

\* leaveChannel: the awaited play command now holds a forgotten player
Left(g) ==
    IF playcmd.guild = g /\ voice[g].connection
    THEN [playcmd EXCEPT !.stage = CASE @ = "fetch" -> "sfetch"
                                      [] @ = "wait" -> "swait"
                                      [] OTHER -> @]
    ELSE playcmd

\* the reply of the awaited /play, once its addToQueue has returned (pc is
\* playcmd after the step) and it has read the queue q
Replied(pc, q) ==
    IF playcmd # NoPlayCmd /\ pc = NoPlayCmd THEN Reply(playcmd.track, q) ELSE <<>>

\* /play, up to the return of joinChannel with success (one voice channel per
\* guild: a connection already registered is "already in this channel")
JoinChannel(g) ==
    /\ Idle /\ g \in members /\ Budget
    /\ voice' = [voice EXCEPT ![g] =
          IF voice[g].connection THEN voice[g]
          ELSE [voice[g] EXCEPT !.connection = TRUE,
                                !.player = IF voice[g].player = "none" THEN "Idle"
                                           ELSE voice[g].player]]
    /\ joined' = [joined EXCEPT ![g] = joined[g] + 1]
    /\ last' = Did("JoinChannel", g, <<>>)
    /\ UNCHANGED <<cache, members, playcmd, now, nextId, queues, skipreq, sync>>

\* joinChannel fails waiting for Ready: the connection stays registered, no
\* player is created, /play returns
JoinChannelFails(g) ==
    /\ Idle /\ g \in members
    /\ ~voice[g].connection
    /\ voice' = [voice EXCEPT ![g].connection = TRUE]
    /\ last' = Did("JoinChannelFails", g, <<>>)
    /\ UNCHANGED <<cache, members, playcmd, now, nextId, queues, joined, skipreq, sync>>

\* /play after joinChannel: addToQueue for the resolved track.  addToQueue
\* returns within the same run when it only appends or when its play command
\* is rejected at once, and /play replies; else /play stays suspended with
\* processQueue until the play command returns (one such /play is followed)
AddToQueue(g) ==
    /\ Idle /\ joined[g] > 0 /\ nextId <= MaxTracks
    /\ LET r == addToQueue(g, getOrCreateQueue(queues, g), nextId)
           v == Issue(voice[g], r.cmds)
           awaits == Suspended(v) > Suspended(voice[g])
       IN /\ queues' = [queues EXCEPT ![g] = r.q]
          /\ voice' = [voice EXCEPT ![g] = v]
          /\ Suspended(v) <= MaxPlays
          /\ playcmd' = IF awaits /\ playcmd = NoPlayCmd
                        THEN [guild |-> g, track |-> nextId, stage |-> "fetch"]
                        ELSE playcmd
          /\ last' = [Did("AddToQueue", g, r.cmds) EXCEPT
                         !.report = IF awaits THEN <<>> ELSE Reply(nextId, r.q)]
    /\ nextId' = nextId + 1
    /\ joined' = [joined EXCEPT ![g] = joined[g] - 1]
    /\ UNCHANGED <<cache, members, now, skipreq, sync>>

\* a user sends /skip, looking at the track that is current
SkipIssued(g) ==
    /\ Idle /\ g \in members
    /\ skipreq[g] = <<>>
    /\ skipreq' = [skipreq EXCEPT ![g] =
          <<IF queues[g].exists THEN queues[g].currentTrack.id ELSE 0>>]
    /\ last' = Did("SkipIssued", g, <<>>)
    /\ UNCHANGED <<cache, members, playcmd, now, nextId, queues, voice, joined, sync>>

\* /skip after deferReply: replies "No track is currently playing" without a
\* queue or a current track, else calls skipTrack
SkipCommand(g) ==
    /\ Idle /\ skipreq[g] # <<>>
    /\ LET q == queues[g]
           r == IF ~q.exists \/ q.currentTrack = NoTrack THEN Res(q, <<>>)
                ELSE skipTrack(g, q)
       IN Ran("SkipCommand", g, r.q, r.cmds)
    /\ skipreq' = [skipreq EXCEPT ![g] = <<>>]
    /\ UNCHANGED <<cache, members, playcmd, now, nextId, joined, sync>>

LoopCommand(g, mode) ==
    /\ Idle /\ g \in members
    /\ Reported("LoopCommand", g,
                [q |-> setLoopMode(queues[g], mode), cmds |-> <<>>,
                 result |-> setLoopModeResult(queues[g])], <<>>)
    /\ UNCHANGED <<cache, members, playcmd, now, nextId, joined, skipreq, sync>>

\* /stop: clearQueue, then leaveChannel
StopCommand(g) ==
    /\ Idle /\ g \in members
    /\ LET r == clearQueue(g, queues[g])
       IN Reported("StopCommand", g, r, r.cmds \o <<LeaveCmd(g)>>)
    /\ playcmd' = Left(g)
    /\ UNCHANGED <<cache, members, now, nextId, joined, skipreq, sync>>

\* /pause: pausePlayback pauses a playing player and emits 'trackPause'
PauseCommand(g) ==
    /\ Idle /\ g \in members
    /\ queues[g].exists /\ queues[g].currentTrack # NoTrack
    /\ ~queues[g].currentTrack.state.isPaused
    /\ voice' = [voice EXCEPT ![g].player =
          IF voice[g].player = "Playing" THEN "Paused" ELSE voice[g].player]
    /\ queues' = [queues EXCEPT ![g] =
          IF voice[g].player = "none" THEN queues[g] ELSE handleTrackPause(queues[g])]
    /\ last' = Did("PauseCommand", g, <<[cmd |-> "pause", guild |-> g, track |-> queues[g].currentTrack.id,
                 skipped |-> queues[g].currentTrack.state.wasSkipped]>>)
    /\ UNCHANGED <<cache, members, playcmd, now, nextId, joined, skipreq, sync>>

\* /resume: resumePlayback unpauses a paused player and emits 'trackResume'
ResumeCommand(g) ==
    /\ Idle /\ g \in members
    /\ queues[g].exists /\ queues[g].currentTrack # NoTrack
    /\ queues[g].currentTrack.state.isPaused
    /\ voice' = [voice EXCEPT ![g].player =
          IF voice[g].player = "Paused" THEN "Playing" ELSE voice[g].player]
    /\ queues' = [queues EXCEPT ![g] =
          IF voice[g].player = "none" THEN queues[g] ELSE handleTrackResume(queues[g])]
    /\ last' = Did("ResumeCommand", g, <<[cmd |-> "resume", guild |-> g, track |-> queues[g].currentTrack.id,
                 skipped |-> queues[g].currentTrack.state.wasSkipped]>>)
    /\ UNCHANGED <<cache, members, playcmd, now, nextId, joined, skipreq, sync>>

\* a suspended play gets its audio URL: player.play(resource) on the player it
\* captured, then it waits for that player to enter Playing
PlayFetched(g) ==
    /\ Idle /\ voice[g].plays.fetch > 0
    /\ voice' = [voice EXCEPT ![g].plays.fetch = @ - 1, ![g].plays.wait = @ + 1,
                              ![g].player = "Buffering", ![g].stopping = FALSE]
    /\ playcmd' \in PlayMoves(g, "fetch", "wait", voice[g].plays.fetch)
    /\ last' = Did("PlayFetched", g, <<>>)
    /\ UNCHANGED <<cache, members, now, nextId, queues, joined, skipreq, sync>>

\* the same for a play that outlived leaveChannel: its player is forgotten
StalePlayFetched(g) ==
    /\ Idle /\ voice[g].stale.fetch > 0
    /\ voice' = [voice EXCEPT ![g].stale.fetch = @ - 1, ![g].stale.wait = @ + 1]
    /\ playcmd' \in PlayMoves(g, "sfetch", "swait", voice[g].stale.fetch)
    /\ last' = Did("StalePlayFetched", g, <<>>)
    /\ UNCHANGED <<cache, members, now, nextId, queues, joined, skipreq, sync>>

\* a suspended play returns an error result (no audio URL, or the player did
\* not enter Playing within 5 s): its callers leave the queue as it is
PlayFails(g, pc) ==
    /\ Idle /\ voice[g].plays[pc] > 0
    /\ voice' = [voice EXCEPT ![g].plays[pc] = @ - 1]
    /\ playcmd' \in PlayReturns(g, pc, voice[g].plays[pc])
    /\ last' = [Did("PlayFails", g, <<>>) EXCEPT !.report = Replied(playcmd', queues[g])]
    /\ UNCHANGED <<cache, members, now, nextId, queues, joined, skipreq, sync>>

StalePlayFails(g, pc) ==
    /\ Idle /\ voice[g].stale[pc] > 0
    /\ voice' = [voice EXCEPT ![g].stale[pc] = @ - 1]
    /\ playcmd' \in PlayReturns(g, IF pc = "fetch" THEN "sfetch" ELSE "swait",
                                 voice[g].stale[pc])
    /\ last' = [Did("StalePlayFails", g, <<>>) EXCEPT !.report = Replied(playcmd', queues[g])]
    /\ UNCHANGED <<cache, members, now, nextId, queues, joined, skipreq, sync>>

\* the registered player starts its resource (Buffering -> Playing): every
\* play waiting on it returns and emits 'trackStart'
PlayerStarts(g) ==
    /\ Idle /\ voice[g].player = "Buffering"
    /\ voice' = [voice EXCEPT ![g].player = "Playing", ![g].plays.wait = 0]
    /\ queues' = [queues EXCEPT ![g] =
          IF voice[g].plays.wait > 0 THEN handleTrackStart(queues[g]) ELSE queues[g]]
    /\ playcmd' = IF Awaited(g, "wait") THEN NoPlayCmd ELSE playcmd
    /\ last' = [Did("PlayerStarts", g, <<>>) EXCEPT !.report = Replied(playcmd', queues'[g])]
    /\ UNCHANGED <<cache, members, now, nextId, joined, skipreq, sync>>

\* a play that outlived leaveChannel sees its forgotten player enter Playing
\* and emits 'trackStart' for the guild
StalePlayStarts(g) ==
    /\ Idle /\ voice[g].stale.wait > 0
    /\ voice' = [voice EXCEPT ![g].stale.wait = @ - 1]
    /\ queues' = [queues EXCEPT ![g] = handleTrackStart(queues[g])]
    /\ playcmd' \in PlayReturns(g, "swait", voice[g].stale.wait)
    /\ last' = [Did("StalePlayStarts", g, <<>>) EXCEPT !.report = Replied(playcmd', queues'[g])]
    /\ UNCHANGED <<cache, members, now, nextId, joined, skipreq, sync>>

\* stateChange Playing -> Idle (the resource ended, or ended after stop):
\* 'trackEnd'
PlayerEnds(g) ==
    /\ Idle /\ voice[g].player = "Playing"
    /\ LET r == handleTrackEnd(g, queues[g], FALSE)
           v == [voice[g] EXCEPT !.player = "Idle", !.stopping = FALSE]
       IN /\ queues' = [queues EXCEPT ![g] = r.q]
          /\ voice' = [voice EXCEPT ![g] = Issue(v, r.cmds)]
          /\ Suspended(voice'[g]) <= MaxPlays
          /\ last' = Did("PlayerEnds", g, r.cmds)
    /\ UNCHANGED <<cache, members, playcmd, now, nextId, joined, skipreq, sync>>

\* the resource's stream fails: the player emits 'error' ('trackError'), then
\* goes Idle in the same synchronous run; from Playing that state change
\* emits 'trackEnd' (PlayerErrorEnds)
PlayerError(g) ==
    /\ Idle /\ voice[g].player \in {"Buffering", "Playing", "Paused"}
    /\ LET r == handleTrackEnd(g, queues[g], TRUE)
           v == IF voice[g].player = "Playing" THEN voice[g]
                ELSE [voice[g] EXCEPT !.player = "Idle", !.stopping = FALSE]
       IN /\ queues' = [queues EXCEPT ![g] = r.q]
          /\ voice' = [voice EXCEPT ![g] = Issue(v, r.cmds)]
          /\ Suspended(voice'[g]) < MaxPlays
          /\ last' = Did("PlayerError", g, r.cmds)
    /\ sync' = IF voice[g].player = "Playing" THEN g ELSE ""
    /\ UNCHANGED <<cache, members, playcmd, now, nextId, joined, skipreq>>

PlayerErrorEnds(g) ==
    /\ sync = g
    /\ LET r == handleTrackEnd(g, queues[g], FALSE)
           v == [voice[g] EXCEPT !.player = "Idle", !.stopping = FALSE]
       IN /\ queues' = [queues EXCEPT ![g] = r.q]
          /\ voice' = [voice EXCEPT ![g] = Issue(v, r.cmds)]
          /\ last' = Did("PlayerErrorEnds", g, r.cmds)
    /\ sync' = ""
    /\ UNCHANGED <<cache, members, playcmd, now, nextId, joined, skipreq>>

\* the voice connection drops: 'connectionDisconnected' -> clearQueue
Disconnected(g) ==
    /\ Idle /\ voice[g].connection
    /\ LET r == clearQueue(g, queues[g])
       IN Reported("Disconnected", g, r, r.cmds)
    /\ playcmd' = IF queues[g].exists THEN Left(g) ELSE playcmd
    /\ UNCHANGED <<cache, members, now, nextId, joined, skipreq, sync>>

Tick ==
    /\ Idle
    /\ now < MaxTime
    /\ now' = now + 1
    /\ last' = Did("Tick", "g1", <<>>)
    /\ UNCHANGED <<cache, members, playcmd, nextId, queues, voice, joined, skipreq, sync>>

Next ==
    \/ Tick
    \/ \E g \in Guilds :
          \/ JoinChannel(g)
          \/ JoinChannelFails(g)
          \/ AddToQueue(g)
          \/ SkipIssued(g)
          \/ SkipCommand(g)
          \/ \E mode \in LoopModes : LoopCommand(g, mode)
          \/ StopCommand(g)
          \/ PauseCommand(g)
          \/ ResumeCommand(g)
          \/ PlayFetched(g)
          \/ StalePlayFetched(g)
          \/ \E pc \in {"fetch", "wait"} : PlayFails(g, pc) \/ StalePlayFails(g, pc)
          \/ StalePlayStarts(g)
          \/ PlayerStarts(g)
          \/ PlayerEnds(g)
          \/ PlayerError(g)
          \/ PlayerErrorEnds(g)
          \/ Disconnected(g)

Spec == Init /\ [][Next]_vars

\* What the transport does without a user: a suspended play returns (with a
\* result or an error, at the latest after the 5 s wait), a player that is
\* Playing reaches the end of its resource, and the state change that follows
\* a player error is delivered.
Fairness ==
    \A g \in Guilds :
        /\ WF_vars(PlayFetched(g) \/ PlayFails(g, "fetch"))
        /\ WF_vars(PlayerStarts(g) \/ PlayFails(g, "wait"))
        /\ WF_vars(StalePlayFetched(g) \/ StalePlayFails(g, "fetch"))
        /\ WF_vars(StalePlayStarts(g) \/ StalePlayFails(g, "wait"))
        /\ WF_vars(PlayerEnds(g))
        /\ WF_vars(PlayerErrorEnds(g))

FairSpec == Spec /\ Fairness

\* ------------------------------------------- the service called directly
\* QueueService.skipTrack called as the public method it is, without the
\* check /skip makes before it
SkipTrack(g) ==
    /\ Idle /\ g \in members
    /\ LET r == skipTrack(g, queues[g])
       IN Reported("SkipTrack", g, r, r.cmds)
    /\ UNCHANGED <<cache, members, playcmd, now, nextId, joined, skipreq, sync>>

\* QueueService.processQueue called as the public method it is (in the bot
\* itself only addToQueue calls it, after it has pushed a track)
ProcessQueue(g) ==
    /\ Idle /\ g \in members
    /\ LET r == processQueue(g, getOrCreateQueue(queues, g))
       IN Reported("ProcessQueue", g, r, r.cmds)
    /\ UNCHANGED <<cache, members, playcmd, now, nextId, joined, skipreq, sync>>

ApiNext == Next \/ \E g \in Guilds : SkipTrack(g) \/ ProcessQueue(g)

ApiSpec == Init /\ [][ApiNext]_vars

\* ------------------------------------------- sessions with a long history
HistoryRoom == 1    \* a long history starts with MAX_HISTORY_SIZE - HistoryRoom
                    \* entries or more

\* the tracks a session completed before the run: the k-th latest is -k
OldHistory(n) == [k \in 1..n |-> k - n - 1]

\* A session that has played n tracks to their end under loop mode None and
\* is idle: nothing pending, nothing current, the player Idle, the channel
\* still joined.
HistInit ==
    /\ cache = NoCache
    /\ members = {"g1"}
    /\ now = 0
    /\ nextId = 1
    /\ \E n \in (MAX_HISTORY_SIZE - HistoryRoom)..MAX_HISTORY_SIZE :
          queues = [g \in Guilds |->
                       IF g = "g1" THEN [EmptyQueue EXCEPT !.trackHistory = OldHistory(n)]
                       ELSE NoQueue]
    /\ voice = [g \in Guilds |->
                   IF g = "g1" THEN [NoVoice EXCEPT !.connection = TRUE, !.player = "Idle"]
                   ELSE NoVoice]
    /\ joined = [g \in Guilds |-> 0]
    /\ skipreq = [g \in Guilds |-> <<>>]
    /\ sync = ""
    /\ playcmd = NoPlayCmd
    /\ last = [op |-> "Init", guild |-> "g1", cmds |-> <<>>, result |-> "ok",
               report |-> <<>>, found |-> 0, skipped |-> FALSE]

HistSpec == HistInit /\ [][Next]_vars

\* ------------------------------------------------------------ two guilds
\* the bot serves both guilds from the start
MultiInit ==
    /\ cache = NoCache
    /\ members = Guilds
    /\ now = 0
    /\ nextId = 1
    /\ queues = [g \in Guilds |-> NoQueue]
    /\ voice = [g \in Guilds |-> NoVoice]
    /\ joined = [g \in Guilds |-> 0]
    /\ skipreq = [g \in Guilds |-> <<>>]
    /\ sync = ""
    /\ playcmd = NoPlayCmd
    /\ last = Did("Init", "g1", <<>>)

\* Both guilds play, stop and get every transport event; the users of g1
\* also skip, set the loop mode, pause and resume (the clock stands still:
\* no handler reads another guild's times).
MultiNext ==
    \/ SkipIssued("g1")
    \/ SkipCommand("g1")
    \/ \E mode \in LoopModes : LoopCommand("g1", mode)
    \/ PauseCommand("g1")
    \/ ResumeCommand("g1")
    \/ \E g \in Guilds :
          \/ JoinChannel(g)
          \/ AddToQueue(g)
          \/ StopCommand(g)
          \/ PlayFetched(g)
          \/ StalePlayFetched(g)
          \/ \E pc \in {"fetch", "wait"} : PlayFails(g, pc) \/ StalePlayFails(g, pc)
          \/ StalePlayStarts(g)
          \/ PlayerStarts(g)
          \/ PlayerEnds(g)
          \/ PlayerError(g)
          \/ PlayerErrorEnds(g)
          \/ Disconnected(g)

MultiSpec == MultiInit /\ [][MultiNext]_vars

\* -------------------------------------------------------- the file cache
\* a step of the clean-up or the clock: the queue engine is not involved
CacheStep(op, key, value, c) ==
    /\ cache' = [c EXCEPT !.op = op, !.key = key, !.who = 0, !.value = value,
                          !.error = "", !.ret = "", !.info = ""]
    /\ UNCHANGED <<members, nextId, queues, voice, joined, skipreq, sync, playcmd, last>>

\* a step of caller who's getVideoInfoWithAudio: a cache operation returned
\* got (NoGot: none did), and out tells whether the caller got its result
LookupStep(who, op, got, out, c) ==
    /\ cache' = [c EXCEPT !.op = op, !.key = cache.lookup[who].key, !.who = who,
                          !.value = got.value, !.error = got.error,
                          !.ret = out.ret, !.info = out.info]
    /\ UNCHANGED <<now, members, nextId, queues, voice, joined, skipreq, sync, playcmd, last>>

\* getVideoInfoWithAudio(k): cacheService.get(k) issues its readFile
GetCalled(who, k) ==
    /\ cache.lookup[who].stage = "none"
    /\ cache' = [cache EXCEPT !.lookup[who] = [NoLookup EXCEPT !.stage = "read", !.key = k],
                              !.op = "getCalled", !.key = k, !.who = who, !.value = "",
                              !.error = "", !.ret = "", !.info = ""]
    /\ UNCHANGED <<now, members, nextId, queues, voice, joined, skipreq, sync, playcmd, last>>

\* get, from the return of readFile to its next await: without a file it
\* returns ok(null) and the resolver goes on to fetch the metadata; else it
\* stamps accessedAt = Date.now() on the entry read and issues the writeFile
GetRead(who) ==
    /\ cache.lookup[who].stage = "read"
    /\ LET k == cache.lookup[who].key
           e == cache.files[k]
       IN IF ~e.present
          THEN LookupStep(who, "get", Got(""), afterGet(Got("")),
                          [cache EXCEPT !.lookup[who].stage = afterGet(Got("")).stage])
          ELSE LookupStep(who, "getRead", Got(""), Pending,
                          [cache EXCEPT !.lookup[who] =
                              [stage |-> "write", key |-> k, entry |-> touch(e, now)]])

\* the writeFile of get is done: the file holds the entry as get read and
\* stamped it, get returns ok(cacheEntry.data) and the resolver returns it
GetWritten(who) ==
    /\ cache.lookup[who].stage = "write"
    /\ LET l == cache.lookup[who]
           out == afterGet(Got(l.entry.data))
       IN LookupStep(who, "get", Got(l.entry.data), out,
                     [cache EXCEPT !.files[l.key] = l.entry,
                                   !.lookup[who] = [NoLookup EXCEPT !.stage = out.stage,
                                                                    !.key = IF out.stage = "none" THEN "" ELSE l.key]])

\* readFile fails with something else than ENOENT, the file does not parse,
\* or the writeFile fails: get returns err(FileSystem), the file is as it was
GetFails(who) ==
    /\ cache.lookup[who].stage \in {"read", "write"}
    /\ LET l == cache.lookup[who]
           out == afterGet(GotError)
       IN LookupStep(who, "get", GotError, out,
                     [cache EXCEPT !.lookup[who] =
                         IF out.stage = "none" THEN NoLookup
                         ELSE [stage |-> out.stage, key |-> l.key, entry |-> NoFile]])

\* youtube-dl returns the metadata: set(k, value) builds a new entry,
\* createdAt = accessedAt = Date.now(), and issues its writeFile
Resolved(who, value) ==
    /\ cache.lookup[who].stage = "resolve"
    /\ LookupStep(who, "setCalled", Got(""), Pending,
                  [cache EXCEPT !.lookup[who].stage = "set",
                                !.lookup[who].entry = CacheEntry(value, now)])

\* youtube-dl fails (YouTube), or what it returns has no audio URL
\* (Validation): the error is returned, nothing is cached
ResolveFails(who, type) ==
    /\ cache.lookup[who].stage = "resolve"
    /\ LookupStep(who, "resolveFails", Got(""), Returns(type, ""),
                  [cache EXCEPT !.lookup[who] = NoLookup])

\* the writeFile of set is done: set returns ok, the resolver the metadata
SetWritten(who) ==
    /\ cache.lookup[who].stage = "set"
    /\ LET l == cache.lookup[who]
       IN LookupStep(who, "set", Got(""), afterSet(Got(""), l.entry.data),
                     [cache EXCEPT !.files[l.key] = l.entry, !.lookup[who] = NoLookup])

\* the writeFile of set fails: set returns err(FileSystem)
SetFails(who) ==
    /\ cache.lookup[who].stage = "set"
    /\ LET l == cache.lookup[who]
       IN LookupStep(who, "set", GotError, afterSet(GotError, l.entry.data),
                     [cache EXCEPT !.lookup[who] = NoLookup])

\* cleanOldEntries between two files: done when none is left, else the
\* readFile of the next one is issued (readdir promises no order)
NextFile(c) ==
    IF c.files = {} THEN {[c EXCEPT !.stage = "none", !.file = ""]}
    ELSE {[c EXCEPT !.stage = "read", !.file = f, !.files = c.files \ {f}] : f \in c.files}

\* the clean-up timer (or the start of the process) calls
\* cleanOldEntries(maxAgeHours): readdir is issued
CleanCalled(maxAgeHours) ==
    /\ cache.clean.stage = "none"
    /\ CacheStep("cleanCalled", "", "",
                 [cache EXCEPT !.clean = [NoClean EXCEPT !.stage = "readdir",
                                                         !.maxAgeMs = maxAgeHours * HourMs]])
    /\ UNCHANGED now

\* readdir returns the files there are; now = Date.now(); the loop starts
CleanListed ==
    /\ cache.clean.stage = "readdir"
    /\ \E c \in NextFile([cache.clean EXCEPT
                              !.now = now,
                              !.files = {k \in Keys : cache.files[k].present}]) :
          CacheStep(IF c.stage = "none" THEN "clean" ELSE "cleanListed", "", "",
                    [cache EXCEPT !.clean = c])
    /\ UNCHANGED now

\* the readFile of a file returns: an entry with now - accessedAt > maxAgeMs
\* gets its unlink issued; any other, and a file that is gone, is passed over
CleanRead ==
    /\ cache.clean.stage = "read"
    /\ LET c == cache.clean
           e == cache.files[c.file]
       IN IF e.present /\ c.now - e.accessedAt > c.maxAgeMs
          THEN CacheStep("cleanRead", c.file, "", [cache EXCEPT !.clean.stage = "unlink"])
          ELSE \E c2 \in NextFile(c) :
                  CacheStep(IF c2.stage = "none" THEN "clean" ELSE "cleanRead", c.file, "",
                            [cache EXCEPT !.clean = c2])
    /\ UNCHANGED now

\* the unlink is done: the file is gone, whatever it held by now
CleanUnlinked ==
    /\ cache.clean.stage = "unlink"
    /\ \E c2 \in NextFile(cache.clean) :
          CacheStep(IF c2.stage = "none" THEN "clean" ELSE "cleanUnlinked",
                    cache.clean.file, "",
                    [cache EXCEPT !.files[cache.clean.file] = NoFile, !.clean = c2])
    /\ UNCHANGED now

\* an hour passes
CacheTick ==
    /\ now < CacheMaxTime * HourMs
    /\ now' = now + HourMs
    /\ CacheStep("tick", "", "", cache)

CacheNext ==
    \/ CacheTick
    \/ \E maxAgeHours \in 1..MaxAgeHours : CleanCalled(maxAgeHours)
    \/ CleanListed
    \/ CleanRead
    \/ CleanUnlinked
    \/ \E who \in Callers :
          \/ \E k \in Keys : GetCalled(who, k)
          \/ GetRead(who)
          \/ GetWritten(who)
          \/ GetFails(who)
          \/ \E value \in Values : Resolved(who, value)
          \/ \E type \in {"YouTube", "Validation"} : ResolveFails(who, type)
          \/ SetWritten(who)
          \/ SetFails(who)

CacheSpec == Init /\ [][CacheNext]_vars

\* ------------------------------------- the cache as YouTubeService runs it
\* cleanCache: at construction and then every CACHE_CLEANUP_INTERVAL the
\* timer calls cleanOldEntries(CACHE_MAX_AGE_HOURS)
CleanCache ==
    /\ cache.clean.stage = "none"
    /\ now >= cache.timer
    /\ CacheStep("cleanCalled", "", "",
                 [cache EXCEPT !.clean = [NoClean EXCEPT
                                             !.stage = "readdir",
                                             !.maxAgeMs = CACHE_MAX_AGE_HOURS * HourMs],
                               !.timer = @ + CACHE_CLEANUP_INTERVAL])
    /\ UNCHANGED now

\* an hour passes; a clean-up that is due has been started
YtTick ==
    /\ now < YtMaxTime * HourMs
    /\ now < cache.timer
    /\ now' = now + HourMs
    /\ CacheStep("tick", "", "", cache)

\* one lookup at a time
YtNext ==
    \/ YtTick
    \/ CleanCache
    \/ CleanListed
    \/ CleanRead
    \/ CleanUnlinked
    \/ \E k \in Keys : GetCalled(1, k)
    \/ GetRead(1)
    \/ GetWritten(1)
    \/ GetFails(1)
    \/ \E value \in Values : Resolved(1, value)
    \/ \E type \in {"YouTube", "Validation"} : ResolveFails(1, type)
    \/ SetWritten(1)
    \/ SetFails(1)

YtSpec == Init /\ [][YtNext]_vars

\* ---------------------------------------------------------------- claims
Min(a, b) == IF a < b THEN a ELSE b
Last(s) == s[Len(s)]
PendingIds(q) == {q.tracks[k].id : k \in 1..Len(q.tracks)}
PlaysIssued(cmds, t) == {k \in 1..Len(cmds) : cmds[k].cmd = "play" /\ cmds[k].track = t}
StopsIssued(cmds) == {k \in 1..Len(cmds) : cmds[k].cmd = "stop"}

\* the steps that process a completion ('trackEnd' or 'trackError')
EndOps == {"PlayerEnds", "PlayerError", "PlayerErrorEnds"}

\* the latest step ran a completion handler on guild g and found a current track
Completed(g) ==
    /\ last'.op \in EndOps /\ last'.guild = g
    /\ queues[g].exists /\ queues[g].currentTrack # NoTrack

\* C1: in every state in which another command or transport event can be
\* interleaved, a session has isPlaying true exactly when its currentTrack is
\* non-null, failed play commands included.
C1_PlayingIffCurrent ==
    \A g \in Guilds :
        queues[g].exists =>
            (queues[g].isPlaying <=> queues[g].currentTrack # NoTrack)

\* C1 witness: a play command has just failed and the session still holds the
\* track as current, with isPlaying true
C1_Witness ==
    /\ last.op = "PlayFails"
    /\ queues[last.guild].exists
    /\ queues[last.guild].isPlaying
    /\ queues[last.guild].currentTrack # NoTrack
    /\ Suspended(voice[last.guild]) = 0

\* C2 (as claimed): a /skip sent for a track that has already been completed
\* by its 'trackEnd' is a no-op: it neither marks the newly installed track
\* as skipped nor issues a stop for it.
C2_LateSkipIsNoOp ==
    [][\A g \in Guilds :
          (/\ last'.op = "SkipCommand" /\ last'.guild = g
           /\ queues[g].exists
           /\ Head(skipreq[g]) \notin {0, queues[g].currentTrack.id})
          => (queues'[g] = queues[g] /\ last'.cmds = <<>>)]_vars

\* C3 (as claimed): when the player's error is followed by its Playing -> Idle
\* state change, the 'trackEnd' that arrives second completes nothing and
\* issues no play command.
C3_SecondCompletionIsNoOp ==
    [][last'.op = "PlayerErrorEnds" => (queues' = queues /\ last'.cmds = <<>>)]_vars

\* C4: when the completion of a current track with wasSkipped = true is
\* processed, the track becomes the newest history entry whatever the loop
\* mode is: no play command is issued for it, it is not re-appended to the
\* pending sequence and it is no longer current.
C4_SkippedGoesToHistory ==
    [][\A g \in Guilds :
          (Completed(g) /\ queues[g].currentTrack.state.wasSkipped)
          => LET t == queues[g].currentTrack.id
                 h == queues[g].trackHistory
                 q == queues'[g]
             IN /\ q.exists
                /\ Len(q.trackHistory) = Min(Len(h) + 1, MAX_HISTORY_SIZE)
                /\ Last(q.trackHistory) = t
                /\ PlaysIssued(last'.cmds, t) = {}
                /\ t \notin PendingIds(q)
                /\ q.currentTrack.id # t
                /\ q.loopMode = queues[g].loopMode]_vars

\* C4 witness: a skipped track has just been completed under loop mode Track
\* with another track pending
C4_Witness ==
    /\ last.op = "PlayerEnds" /\ last.skipped
    /\ queues[last.guild].exists
    /\ queues[last.guild].loopMode = "track"
    /\ queues[last.guild].currentTrack # NoTrack

\* C5 (as claimed, the Paused case): whenever skipTrack returns success while
\* the track is Paused, the track that was current is eventually moved to
\* history (or its session is removed).
C5_SkipEventuallyCompletes ==
    \A g \in Guilds : \A t \in TrackIds :
        (/\ last.op = "SkipCommand" /\ last.guild = g
         /\ last.cmds # <<>> /\ last.found = t
         /\ voice[g].player = "Paused")
        ~> (\/ ~queues[g].exists
            \/ \E k \in 1..Len(queues[g].trackHistory) : queues[g].trackHistory[k] = t)

C7_TrackLoopReplays ==
    [][\A g \in Guilds :
          (/\ Completed(g) /\ last'.op \in {"PlayerEnds", "PlayerErrorEnds"}
           /\ ~queues[g].currentTrack.state.wasSkipped
           /\ queues[g].loopMode = "track")
          => /\ queues'[g] = queues[g]
             /\ last'.cmds = <<PlayCmd(g, queues[g].currentTrack)>>
             /\ voice'[g].plays.fetch = voice[g].plays.fetch + 1]_vars

\* C7 witness: the replay of a Track-looped track has started (startedAt
\* stamped) and its next natural end has re-issued the play again
C7_Witness ==
    /\ last.op = "PlayerEnds" /\ ~last.skipped /\ last.found # 0
    /\ queues[last.guild].loopMode = "track"
    /\ queues[last.guild].currentTrack.id = last.found
    /\ queues[last.guild].currentTrack.state.startedAt # NoDate
    /\ PlaysIssued(last.cmds, last.found) # {}

\* C8: a completion of a current track that was not skipped, under loop mode
\* Queue, appends the track with its initial playback state behind every
\* pending track, leaves the history as it is, and installs the head of the
\* pending sequence as current.
C8_QueueLoopReappends ==
    [][\A g \in Guilds :
          (/\ Completed(g)
           /\ ~queues[g].currentTrack.state.wasSkipped
           /\ queues[g].loopMode = "queue")
          => LET ended == queues[g].currentTrack
                 appended == Append(queues[g].tracks, [id |-> ended.id, state |-> InitialState])
                 q == queues'[g]
             IN /\ q.tracks = Tail(appended)
                /\ q.currentTrack = Head(appended)
                /\ q.isPlaying
                /\ q.trackHistory = queues[g].trackHistory
                /\ last'.cmds = <<PlayCmd(g, Head(appended))>>]_vars

\* C8 witness: under loop mode Queue a started track has ended naturally with
\* another track pending: it is now the tail of pending, reset, and the other
\* track is current
C8_Witness ==
    /\ last.op = "PlayerEnds" /\ ~last.skipped /\ last.found # 0
    /\ queues[last.guild].loopMode = "queue"
    /\ queues[last.guild].tracks # <<>>
    /\ Last(queues[last.guild].tracks) = [id |-> last.found, state |-> InitialState]
    /\ queues[last.guild].currentTrack.id # last.found

\* C9: a completion of the current track under loop mode None appends the
\* track as the newest history entry and not to pending; the head of pending,
\* if any, becomes current, else current is null and isPlaying false.
C9_NoLoopMovesToHistory ==
    [][\A g \in Guilds :
          (Completed(g) /\ queues[g].loopMode = "none")
          => LET ended == queues[g].currentTrack
                 p == queues[g].tracks
                 h == queues[g].trackHistory
                 q == queues'[g]
             IN /\ Len(q.trackHistory) = Min(Len(h) + 1, MAX_HISTORY_SIZE)
                /\ Last(q.trackHistory) = ended.id
                /\ SubSeq(q.trackHistory, 1, Len(q.trackHistory) - 1)
                      = SubSeq(h, Len(h) + 2 - Len(q.trackHistory), Len(h))
                /\ IF p = <<>>
                   THEN q.tracks = <<>> /\ q.currentTrack = NoTrack /\ ~q.isPlaying
                        /\ last'.cmds = <<>>
                   ELSE q.tracks = Tail(p) /\ q.currentTrack = Head(p) /\ q.isPlaying
                        /\ last'.cmds = <<PlayCmd(g, Head(p))>>]_vars

\* C9 witness: under loop mode None a track has ended and the next pending
\* track has been installed
C9_Witness ==
    /\ last.op = "PlayerEnds" /\ last.found # 0
    /\ queues[last.guild].loopMode = "none"
    /\ queues[last.guild].trackHistory # <<>>
    /\ Last(queues[last.guild].trackHistory) = last.found
    /\ queues[last.guild].currentTrack # NoTrack

\* what the loop-mode rules make of a completed track that was not skipped
LoopRule(g, q) ==
    CASE q.loopMode = "track" -> Res(q, <<PlayCmd(g, q.currentTrack)>>)
      [] q.loopMode = "queue" ->
           playNextTrack(g, [q EXCEPT !.tracks =
                Append(q.tracks, [id |-> q.currentTrack.id, state |-> InitialState])])
      [] q.loopMode = "none" -> playNextTrack(g, addToHistory(q, q.currentTrack))

C11_FailedPlayIsDiscarded ==
    [][\A g \in Guilds :
          (/\ last'.op = "PlayFails" /\ last'.guild = g
           /\ queues[g].exists /\ queues[g].currentTrack # NoTrack
           /\ voice'[g].plays = NoPlays /\ voice'[g].player = "Idle")
          => /\ queues'[g].currentTrack.id # queues[g].currentTrack.id
             /\ (queues'[g].isPlaying <=> queues'[g].currentTrack # NoTrack)]_vars

\* C12 (as claimed): no deadlock.  Under loop mode None, with the session
\* not stopped or cleared, the guild connected with its player, and the
\* current track not held paused by the user, every track of the session
\* (current or pending) eventually reaches history, the transport delivering
\* every return and every end it owes.
C12_EveryTrackReachesHistory ==
    \A g \in Guilds : \A t \in TrackIds :
        (/\ queues[g].exists
         /\ voice[g].connection /\ voice[g].player # "none"
         /\ (queues[g].currentTrack.id = t \/ t \in PendingIds(queues[g])))
        ~> (\/ ~queues[g].exists
            \/ ~voice[g].connection \/ voice[g].player = "none"
            \/ queues[g].loopMode # "none"
            \/ queues[g].currentTrack.state.isPaused
            \/ \E k \in 1..Len(queues[g].trackHistory) : queues[g].trackHistory[k] = t)

\* C13: a /stop, or the clear that a disconnect triggers, on a guild with a
\* session, whatever the session is doing (idle, play command still awaited,
\* Playing, Paused, completion pending), first hands the transport a stop and
\* then a leave for that guild and removes the session; after it the guild
\* has no registry entry, no connection and no player.  A /stop without a
\* session still leaves the channel.
C13_ClearStopsLeavesRemoves ==
    [][\A g \in Guilds :
          /\ (/\ last'.op \in {"StopCommand", "Disconnected"} /\ last'.guild = g
              /\ queues[g].exists)
             => /\ Len(last'.cmds) >= 2
                /\ last'.cmds[1].cmd = "stop" /\ last'.cmds[1].guild = g
                /\ last'.cmds[2] = LeaveCmd(g)
                /\ ~queues'[g].exists
                /\ ~voice'[g].connection /\ voice'[g].player = "none"
                /\ voice'[g].plays = NoPlays
          /\ (last'.op = "StopCommand" /\ last'.guild = g)
             => /\ ~queues'[g].exists
                /\ ~voice'[g].connection /\ voice'[g].player = "none"]_vars

\* C13 witness: a /stop has just removed a session whose current track's
\* play command was still awaited (it is now a play on a forgotten player)
C13_Witness ==
    /\ last.op = "StopCommand" /\ last.found # 0
    /\ ~queues[last.guild].exists
    /\ voice[last.guild].stale.fetch > 0

\* the tracks a session holds: current and pending
SessionIds(q) ==
    IF ~q.exists THEN {}
    ELSE PendingIds(q) \cup (IF q.currentTrack = NoTrack THEN {} ELSE {q.currentTrack.id})

\* what still arrives from the transport of a terminated session
StaleOps == {"StalePlayFetched", "StalePlayStarts", "StalePlayFails"}

\* C14: terminating a session mid-track (by /stop, or by the clear that a
\* disconnect triggers) replays nothing, re-appends nothing and advances to
\* nothing, whatever the loop mode and however many tracks are pending: the
\* step issues no play command and leaves no session; what the transport
\* still reports for the terminated session finds no session, creates none
\* and issues no command; and a play command is only ever issued for a track
\* of the guild's live session or for the track being enqueued, so no track
\* of a terminated session is played again.
C14_TerminationPlaysNothing ==
    [][\A g \in Guilds :
          /\ (/\ last'.op \in {"StopCommand", "Disconnected"} /\ last'.guild = g
              /\ queues[g].exists)
             => /\ \A t \in TrackIds : PlaysIssued(last'.cmds, t) = {}
                /\ voice'[g].plays = NoPlays
                /\ voice'[g].stale.fetch = voice[g].stale.fetch + voice[g].plays.fetch
                /\ voice'[g].stale.wait = voice[g].stale.wait + voice[g].plays.wait
                /\ ~queues'[g].exists
          /\ (last'.op \in StaleOps /\ last'.guild = g /\ ~queues[g].exists)
             => /\ ~queues'[g].exists
                /\ last'.cmds = <<>>
                /\ Suspended(voice'[g]) <= Suspended(voice[g])
          /\ (last'.guild = g)
             => \A t \in TrackIds :
                   PlaysIssued(last'.cmds, t) # {}
                   => \/ t \in SessionIds(queues[g])
                      \/ last'.op = "AddToQueue" /\ t = nextId]_vars

\* C14 witness: a 'trackStart' of a terminated session has just arrived for
\* a guild that has no session any more
C14_Witness ==
    /\ last.op = "StalePlayStarts"
    /\ ~queues[last.guild].exists
    /\ nextId > 1

\* C15: a guild's session comes into being only in an enqueue (addToQueue on
\* a guild without one, which always creates it), and processing
\* 'connectionDisconnected' leaves the guild without a session, whatever the
\* session was doing.
C15_CreatedByEnqueueGoneOnDisconnect ==
    [][\A g \in Guilds :
          /\ (~queues[g].exists /\ queues'[g].exists)
             => last'.op = "AddToQueue" /\ last'.guild = g
          /\ (last'.op = "AddToQueue" /\ last'.guild = g) => queues'[g].exists
          /\ (last'.op = "Disconnected" /\ last'.guild = g) => ~queues'[g].exists]_vars

\* C15 witness: a disconnect has just removed a session that had a current
\* track and a play command still awaited
C15_Witness ==
    /\ last.op = "Disconnected" /\ last.found # 0
    /\ ~queues[last.guild].exists
    /\ voice[last.guild].stale.wait > 0

\* C16 (as claimed): at most one play command of a guild's session is
\* outstanding (issued to the guild's player and not yet returned) at any
\* time.
C16_OnePlayOutstanding ==
    \A g \in Guilds : voice[g].plays.fetch + voice[g].plays.wait <= 1

\* C17: every enqueue for a guild works on the guild's one session: it
\* creates the session only when there is none, and otherwise adds its track
\* to the session it finds, also while an earlier enqueue's play command is
\* still awaited; the session then holds every track it held before plus the
\* new one, with history and loop mode as they were, and a session that is
\* playing changes only by the new track at the tail of pending.
C17_EnqueueJoinsTheSession ==
    [][\A g \in Guilds :
          (last'.op = "AddToQueue" /\ last'.guild = g)
          => LET q == queues[g]
                 q2 == queues'[g]
             IN /\ q2.exists
                /\ SessionIds(q2) = SessionIds(q) \cup {nextId}
                /\ ~q.exists
                   => q2 = [EmptyQueue EXCEPT !.currentTrack = NewTrack(nextId),
                                              !.isPlaying = TRUE]
                /\ q.exists
                   => /\ q2.trackHistory = q.trackHistory
                      /\ q2.loopMode = q.loopMode
                      /\ q.isPlaying
                         => q2 = [q EXCEPT !.tracks = Append(q.tracks, NewTrack(nextId))]]_vars

\* C17 witness: a second enqueue has arrived while the play command of the
\* first was still awaited: both tracks are in the one session
C17_Witness ==
    /\ last.op = "AddToQueue" /\ last.found = 1 /\ last.cmds = <<>>
    /\ voice[last.guild].plays.fetch = 1
    /\ queues[last.guild].currentTrack.id = 1
    /\ PendingIds(queues[last.guild]) = {2}

\* C18 (as claimed): clearQueue on a guild that has no session reports
\* success and leaves the registry as it is.
C18_ClearAbsentIsSuccess ==
    [][\A g \in Guilds :
          (/\ last'.op \in {"StopCommand", "Disconnected"} /\ last'.guild = g
           /\ ~queues[g].exists)
          => last'.result = "ok" /\ queues' = queues]_vars

\* C18 (amended): clearQueue on a guild that has no session changes nothing
\* (registry as it was, no stop and no leave issued by clearQueue itself) and
\* reports a Validation error; clearing a second time leaves the same state
\* as clearing once, the second call reporting that error.
C18_ClearAbsentIsValidationError ==
    [][\A g \in Guilds :
          /\ (/\ last'.op \in {"StopCommand", "Disconnected"} /\ last'.guild = g
              /\ ~queues[g].exists)
             => /\ last'.result = "Validation"
                /\ queues' = queues
                /\ StopsIssued(last'.cmds) = {}
                /\ last'.op = "Disconnected" => last'.cmds = <<>> /\ voice' = voice
                /\ last'.op = "StopCommand" => last'.cmds = <<LeaveCmd(g)>>
          /\ LET once == clearQueue(g, queues[g])
                 twice == clearQueue(g, once.q)
             IN /\ twice.q = once.q
                /\ twice.cmds = <<>>
                /\ twice.result = "Validation"]_vars

\* C18 witness: a /stop has just run on a guild whose earlier session was
\* already removed: clearQueue reported the Validation error
C18_Witness ==
    /\ last.op = "StopCommand" /\ last.result = "Validation"
    /\ ~queues[last.guild].exists
    /\ nextId > 1
    /\ voice[last.guild].stale.fetch + voice[last.guild].stale.wait > 0

\* pending is a FIFO: a step removes at most its head, which becomes the
\* current track, and appends at most at its tail
FifoStep(q, q2) ==
    \E app \in {<<>>} \cup {<<x>> : x \in {q2.tracks[k] : k \in 1..Len(q2.tracks)}
                                        \cup {q2.currentTrack}} :
        LET all == q.tracks \o app
        IN \/ q2.tracks = all /\ q2.currentTrack.id \in {q.currentTrack.id, 0}
           \/ all # <<>> /\ q2.tracks = Tail(all) /\ q2.currentTrack = Head(all)

\* C19 (as claimed): pending keeps enqueue order and tracks become current
\* in that order: an enqueue puts its track behind every pending track (or
\* installs it at once); and the position a /play replies with for its track
\* (its session still there) is 0 ('now playing') exactly when the track is
\* the current one, else the track's 1-based index in pending.
C19_FifoAndPosition ==
    [][\A g \in Guilds :
          /\ (queues[g].exists /\ queues'[g].exists) => FifoStep(queues[g], queues'[g])
          /\ (last'.op = "AddToQueue" /\ last'.guild = g)
             => \/ queues'[g].tracks # <<>> /\ Last(queues'[g].tracks).id = nextId
                \/ queues'[g].tracks = <<>> /\ queues'[g].currentTrack.id = nextId
          /\ (last'.guild = g /\ last'.report # <<>> /\ queues'[g].exists)
             => LET t == last'.report[1].track
                    p == last'.report[1].position
                IN IF queues'[g].currentTrack.id = t
                   THEN p = 0
                   ELSE /\ p \in 1..Len(queues'[g].tracks)
                        /\ queues'[g].tracks[p].id = t]_vars

\* C20: in every reachable state the pending sequence of a session does not
\* contain its current track, also right after a Queue-loop completion has
\* re-appended the finished track, and when the only track of the session
\* loops under mode Queue.
C20_CurrentNotPending ==
    \A g \in Guilds :
        (queues[g].exists /\ queues[g].currentTrack # NoTrack)
        => queues[g].currentTrack.id \notin PendingIds(queues[g])

\* C20 witness: under loop mode Queue the only track of the session has
\* ended, was re-appended and installed again: it is current, pending empty
C20_Witness ==
    /\ last.op = "PlayerEnds" /\ ~last.skipped /\ last.found # 0
    /\ queues[last.guild].loopMode = "queue"
    /\ queues[last.guild].currentTrack.id = last.found
    /\ queues[last.guild].tracks = <<>>
    /\ queues[last.guild].currentTrack.state = InitialState

\* C21: the history of a session never holds more than MAX_HISTORY_SIZE (50)
\* entries; a step that changes it appends the completed track as the newest
\* entry, and when the history already held 50 it drops the oldest entry;
\* the entries that remain keep their order, the most recent completion last.
C21_HistoryIsBounded ==
    /\ [](\A g \in Guilds :
             queues[g].exists => Len(queues[g].trackHistory) <= MAX_HISTORY_SIZE)
    /\ [][\A g \in Guilds :
             (queues[g].exists /\ queues'[g].exists
                /\ queues'[g].trackHistory # queues[g].trackHistory)
             => LET h == queues[g].trackHistory
                    t == queues[g].currentTrack.id
                IN /\ t # 0
                   /\ queues'[g].trackHistory =
                         IF Len(h) = MAX_HISTORY_SIZE THEN Append(Tail(h), t)
                         ELSE Append(h, t)]_vars

\* C21 witness: two tracks have completed on a session whose history was
\* full or one short of full: the oldest entries are gone, the history holds
\* 50 entries and ends with the two tracks in their completion order
C21_Witness ==
    /\ last.op \in EndOps /\ last.found \in TrackIds
    /\ Len(queues[last.guild].trackHistory) = MAX_HISTORY_SIZE
    /\ queues[last.guild].trackHistory[MAX_HISTORY_SIZE] = last.found
    /\ queues[last.guild].trackHistory[MAX_HISTORY_SIZE - 1] \in TrackIds
    /\ queues[last.guild].trackHistory[MAX_HISTORY_SIZE - 2] = -1
    /\ queues[last.guild].trackHistory[1] > -MAX_HISTORY_SIZE

\* the step is a /pause or /resume on guild g whose event reaches the queue
\* (the guild has a player)
Emitted(op, g) == last'.op = op /\ last'.guild = g /\ voice[g].player # "none"

\* C22: processing 'trackPause' at time t stamps pausedAt = t and isPaused on
\* the current track; while the track stays current and paused nothing
\* touches pausedAt, totalPausedDuration or startedAt; and processing
\* 'trackResume' at time t + D then adds exactly D to totalPausedDuration,
\* clears pausedAt and isPaused and leaves startedAt (and the rest) as it is.
C22_PauseResumeAddsTheGap ==
    [][\A g \in Guilds :
          LET st == queues[g].currentTrack.state
              st2 == queues'[g].currentTrack.state
          IN /\ Emitted("PauseCommand", g)
                => queues'[g] = [queues[g] EXCEPT !.currentTrack.state.pausedAt = now,
                                                  !.currentTrack.state.isPaused = TRUE]
             /\ (/\ queues[g].exists /\ queues'[g].exists
                 /\ queues'[g].currentTrack.id = queues[g].currentTrack.id
                 /\ st.isPaused /\ st2.isPaused)
                => /\ st2.pausedAt = st.pausedAt
                   /\ st2.totalPausedDuration = st.totalPausedDuration
                   /\ st2.startedAt = st.startedAt
             /\ Emitted("ResumeCommand", g)
                => /\ st.pausedAt # NoDate
                   /\ queues'[g] =
                         [queues[g] EXCEPT
                            !.currentTrack.state.totalPausedDuration = @ + (now - st.pausedAt),
                            !.currentTrack.state.pausedAt = NoDate,
                            !.currentTrack.state.isPaused = FALSE]]_vars

\* C22 witness: a playing track was paused, the clock moved on, and the
\* resume has just been processed: the gap is in totalPausedDuration
C22_Witness ==
    /\ last.op = "ResumeCommand" /\ voice[last.guild].player = "Playing"
    /\ queues[last.guild].currentTrack.state.totalPausedDuration = MaxTime
    /\ queues[last.guild].currentTrack.state.pausedAt = NoDate
    /\ ~queues[last.guild].currentTrack.state.isPaused
    /\ queues[last.guild].currentTrack.state.startedAt # NoDate

\* C23 (as claimed): for every track a session holds, current or pending,
\* pausedAt is set only while isPaused is true, whatever the order in which
\* 'trackStart', 'trackPause', 'trackResume' and the end events arrive.
C23_PausedAtOnlyWhilePaused ==
    \A g \in Guilds :
        queues[g].exists
        => /\ queues[g].currentTrack.state.pausedAt # NoDate
              => queues[g].currentTrack.state.isPaused
           /\ \A k \in 1..Len(queues[g].tracks) :
                 queues[g].tracks[k].state.pausedAt # NoDate
                 => queues[g].tracks[k].state.isPaused

\* totalPausedDuration of the track t a session holds, current or pending
PausedTotal(q, t) ==
    IF q.currentTrack.id = t THEN q.currentTrack.state.totalPausedDuration
    ELSE LET k == CHOOSE k \in 1..Len(q.tracks) : q.tracks[k].id = t
         IN q.tracks[k].state.totalPausedDuration

\* the step completes track t of guild g under loop mode Queue: the session
\* then holds a new QueuedTrack made from it, with the initial playback state
Recreated(g, t) ==
    /\ Completed(g) /\ queues[g].currentTrack.id = t
    /\ ~queues[g].currentTrack.state.wasSkipped /\ queues[g].loopMode = "queue"

\* C24: the totalPausedDuration of a queued track never decreases, and a step
\* changes it only by processing 'trackResume' for the track while it is
\* current with pausedAt set; start, pause, end and skip processing, and the
\* move from pending to current, leave it as it is.  (A Queue-loop completion
\* leaves the track it completes untouched and appends a new QueuedTrack.)
C24_PausedTotalOnlyGrowsOnResume ==
    [][\A g \in Guilds : \A t \in TrackIds :
          (/\ t \in SessionIds(queues[g]) /\ t \in SessionIds(queues'[g])
           /\ ~Recreated(g, t))
          => /\ PausedTotal(queues'[g], t) >= PausedTotal(queues[g], t)
             /\ PausedTotal(queues'[g], t) # PausedTotal(queues[g], t)
                => /\ Emitted("ResumeCommand", g)
                   /\ queues[g].currentTrack.id = t
                   /\ queues[g].currentTrack.state.pausedAt # NoDate]_vars

\* C24 witness: a 'trackStart' has just been processed for a current track
\* that had already spent time paused: the paused time is still there
C24_Witness ==
    /\ last.op = "PlayerStarts" /\ last.found # 0
    /\ queues[last.guild].exists
    /\ queues[last.guild].currentTrack.id = last.found
    /\ queues[last.guild].currentTrack.state.startedAt = now
    /\ queues[last.guild].currentTrack.state.totalPausedDuration > 0

\* C25: an enqueue on a guild whose session is idle (isPlaying false, or no
\* session yet) installs the head of the pending sequence, the new track
\* included, as current, sets isPlaying and issues exactly one play command,
\* for that track; an enqueue while a track is current only appends the new
\* track to pending: no play command, currentTrack and the rest as they were.
C25_EnqueueStartsOnlyWhenIdle ==
    [][\A g \in Guilds :
          (last'.op = "AddToQueue" /\ last'.guild = g)
          => LET q == getOrCreateQueue(queues, g)
                 all == Append(q.tracks, NewTrack(nextId))
             IN IF ~q.isPlaying
                THEN /\ queues'[g] = [q EXCEPT !.currentTrack = Head(all),
                                               !.tracks = Tail(all),
                                               !.isPlaying = TRUE]
                     /\ last'.cmds = <<PlayCmd(g, Head(all))>>
                ELSE /\ q.currentTrack # NoTrack
                     /\ queues'[g] = [q EXCEPT !.tracks = all]
                     /\ last'.cmds = <<>>]_vars

\* C25 witness: an enqueue has just found a session that had gone idle after
\* playing a track to its end: the new track is current, its play issued
C25_Witness ==
    /\ last.op = "AddToQueue" /\ last.found = 0
    /\ queues[last.guild].trackHistory # <<>>
    /\ queues[last.guild].isPlaying
    /\ queues[last.guild].currentTrack.id = nextId - 1
    /\ PlaysIssued(last.cmds, nextId - 1) # {}

\* guild g plays track a (started, not skipped) with the tracks p pending
Plays(g, a, p) ==
    /\ queues[g].exists /\ a # NoTrack
    /\ queues[g].currentTrack = a /\ queues[g].tracks = p
    /\ voice[g].player = "Playing"

\* C26: the end-to-end scenario, step by step.  With no session, enqueue A
\* gives current = A and pending = <<>>; enqueue B while A plays gives
\* pending = <<B>> with A still current, and /play reports position 1; a
\* skip then sets A.wasSkipped and issues one stop to the transport; the
\* 'trackEnd' that results moves A to history and installs B as current with
\* pending = <<>> (its play issued); and a stop removes the session, so that
\* the registry has none for the guild.
C26_EnqueueSkipStopScenario ==
    [][\A g \in Guilds :
          LET q == queues[g]
              q2 == queues'[g]
              A == q.currentTrack
              B == NewTrack(nextId)
              did(op) == last'.op = op /\ last'.guild = g
          IN /\ (did("AddToQueue") /\ ~q.exists)
                => /\ q2.exists /\ q2.currentTrack = B /\ q2.tracks = <<>>
                   /\ q2.isPlaying /\ q2.trackHistory = <<>>
             /\ (did("AddToQueue") /\ Plays(g, A, <<>>))
                => /\ q2 = [q EXCEPT !.tracks = <<B>>]
                   /\ last'.report = <<[track |-> B.id, position |-> 1]>>
             /\ (did("SkipCommand") /\ Plays(g, A, q.tracks) /\ Len(q.tracks) = 1)
                => /\ q2 = [q EXCEPT !.currentTrack.state.wasSkipped = TRUE]
                   /\ last'.cmds = <<StopCmd(g, q2.currentTrack)>>
                   /\ voice'[g].stopping /\ voice'[g].player = "Playing"
             /\ (/\ did("PlayerEnds") /\ Plays(g, A, q.tracks) /\ Len(q.tracks) = 1
                 /\ A.state.wasSkipped)
                => /\ q2.trackHistory = Append(q.trackHistory, A.id)
                   /\ q2.currentTrack = Head(q.tracks) /\ q2.tracks = <<>>
                   /\ q2.isPlaying
                   /\ last'.cmds = <<PlayCmd(g, Head(q.tracks))>>
             /\ did("StopCommand")
                => ~q2.exists /\ ~voice'[g].connection]_vars

\* C26 witness: the scenario up to the completion of the skipped A: A is the
\* one history entry, B is current with its play command issued, nothing is
\* pending
C26_Witness ==
    /\ last.op = "PlayerEnds" /\ last.skipped /\ last.found = 1
    /\ queues[last.guild].exists
    /\ queues[last.guild].trackHistory = <<1>>
    /\ queues[last.guild].currentTrack = NewTrack(2)
    /\ queues[last.guild].tracks = <<>>
    /\ last.cmds = <<PlayCmd(last.guild, NewTrack(2))>>
    /\ voice[last.guild].plays.fetch = 1

\* C27: the sessions of different guilds are isolated: a step for guild g (a
\* command or a transport event) leaves the session of every other guild as
\* it is (pending, current track and its playback state, history, loop mode,
\* isPlaying), leaves the other guild's connection, player and suspended
\* play commands alone, and issues transport commands for g only.
C27_GuildsAreIsolated ==
    [][\A g \in Guilds :
          last'.guild = g
          => /\ \A h \in Guilds \ {g} : queues'[h] = queues[h] /\ voice'[h] = voice[h]
             /\ \A k \in 1..Len(last'.cmds) : last'.cmds[k].guild = g]_vars

\* C27 witness: one guild's session has just been stopped while the other
\* guild's session, with a current track, goes on
C27_Witness ==
    /\ last.op = "StopCommand" /\ last.found # 0
    /\ ~queues[last.guild].exists
    /\ \E h \in Guilds \ {last.guild} :
          /\ queues[h].exists /\ queues[h].currentTrack # NoTrack
          /\ Suspended(voice[h]) > 0

\* C28: setLoopMode on a guild without a session returns a Validation error
\* and creates no session; on a guild with a session it succeeds and changes
\* loopMode only: pending, current track and its playback state, history
\* and isPlaying stay as they were; in both cases no transport command is
\* issued and connection and player are left alone.
C28_LoopModeOnly ==
    [][\A g \in Guilds :
          (last'.op = "LoopCommand" /\ last'.guild = g)
          => /\ last'.cmds = <<>> /\ voice' = voice
             /\ IF ~queues[g].exists
                THEN last'.result = "Validation" /\ queues' = queues
                ELSE /\ last'.result = "ok"
                     /\ \E mode \in LoopModes :
                           queues' = [queues EXCEPT ![g].loopMode = mode]]_vars

\* C28 witness: the loop mode has just been changed on a session that holds
\* a current track and a pending one
C28_Witness ==
    /\ last.op = "LoopCommand" /\ last.result = "ok" /\ last.found # 0
    /\ queues[last.guild].loopMode = "queue"
    /\ queues[last.guild].currentTrack.id = last.found
    /\ queues[last.guild].tracks # <<>>

\* C29: skipTrack on a guild without a session, or with a session that is
\* not playing, returns a Validation error within the call, issues no stop
\* (no transport command at all) and leaves everything as it was: no
\* wasSkipped flag set, pending, current and history untouched, connection
\* and player alone.  /skip itself, finding no session or no current track,
\* does not even call it and changes nothing either.
C29_SkipWithoutPlaybackIsRejected ==
    [][\A g \in Guilds :
          /\ (/\ last'.op = "SkipTrack" /\ last'.guild = g
              /\ (~queues[g].exists \/ ~queues[g].isPlaying))
             => /\ last'.result = "Validation"
                /\ last'.cmds = <<>>
                /\ queues' = queues /\ voice' = voice
          /\ (/\ last'.op = "SkipCommand" /\ last'.guild = g
              /\ (~queues[g].exists \/ ~queues[g].isPlaying))
             => /\ last'.cmds = <<>>
                /\ queues' = queues /\ voice' = voice]_vars

\* C29 witness: skipTrack has just been refused on a session that went idle
\* after its track ended
C29_Witness ==
    /\ last.op = "SkipTrack" /\ last.result = "Validation"
    /\ queues[last.guild].exists
    /\ ~queues[last.guild].isPlaying
    /\ queues[last.guild].trackHistory # <<>>

\* the step is the end of a run of cleanOldEntries
CleanDone == cache.clean.stage # "none" /\ cache'.clean.stage = "none"

\* the step is an unlink of cleanOldEntries taking effect
Unlinks == cache.clean.stage = "unlink" /\ cache'.clean # cache.clean

\* old for the run c of cleanOldEntries: now - accessedAt > maxAgeMs
Old(c, e) == c.now - e.accessedAt > c.maxAgeMs

\* C30 (as claimed): when cleanOldEntries(maxAge) has run, no entry is left
\* whose accessedAt is older than maxAge, and it has removed no entry whose
\* accessedAt is more recent than that: such an entry is retained; a get on
\* a key without an entry is a miss, a get on a key with an entry is a hit
\* that returns the metadata stored.
C30_CleanRemovesExactlyTheOld ==
    [][/\ CleanDone
          => \A k \in Keys :
                cache'.files[k].present => ~Old(cache'.clean, cache'.files[k])
       /\ Unlinks
          => (cache.files[cache.clean.file].present
                => Old(cache.clean, cache.files[cache.clean.file]))
       /\ \A who \in Callers :
             LET l == cache.lookup[who]
                 got == cache'.who = who /\ cache'.op = "get" /\ cache'.error = ""
             IN /\ (l.stage = "read" /\ cache'.lookup[who] # l /\ cache'.error = "")
                   => IF cache.files[l.key].present
                      THEN /\ cache'.lookup[who].stage = "write"
                           /\ cache'.lookup[who].entry.data = cache.files[l.key].data
                      ELSE got /\ cache'.key = l.key /\ cache'.value = ""
                /\ (l.stage = "write" /\ cache'.lookup[who] # l /\ cache'.error = "")
                   => /\ got /\ cache'.key = l.key
                      /\ cache'.value = l.entry.data]_vars

\* the step is caller who's get returning without an error
GetReturns(who) == cache'.who = who /\ cache'.op = "get" /\ cache'.error = ""

\* C31: a get that finds an entry stamps accessedAt = the time of the read on
\* the entry it read and leaves its data and createdAt as read; what it
\* writes to the file is that entry, and what it returns is the data stored.
\* A get that finds no entry returns null, writes nothing and creates no
\* entry.
C31_GetRefreshesAccessedAtOnly ==
    [][\A who \in Callers :
          LET l == cache.lookup[who]
              l2 == cache'.lookup[who]
          IN /\ (l.stage = "read" /\ l2.stage = "write")
                => /\ cache.files[l.key].present
                   /\ l2.entry = [cache.files[l.key] EXCEPT !.accessedAt = now]
                   /\ cache'.files = cache.files
             /\ (l.stage = "write" /\ GetReturns(who))
                => /\ cache'.value = l.entry.data
                   /\ cache'.files = [cache.files EXCEPT ![l.key] = l.entry]
             /\ (l.stage = "read" /\ GetReturns(who))
                => /\ ~cache.files[l.key].present
                   /\ cache'.value = ""
                   /\ cache'.files = cache.files
                   /\ l2.stage # "write"]_vars

\* a get has just returned a hit on an entry created an hour or more before:
\* the file holds the metadata returned, createdAt as it was, accessedAt later
C31_Witness ==
    /\ cache.op = "get" /\ cache.error = "" /\ cache.value # ""
    /\ cache.files[cache.key].present
    /\ cache.files[cache.key].data = cache.value
    /\ cache.files[cache.key].accessedAt = now
    /\ cache.files[cache.key].createdAt < now

\* C32: a failure of the cache is a miss.  When get returns an error,
\* getVideoInfoWithAudio goes on to the remote lookup; when the remote lookup
\* has returned the metadata, getVideoInfoWithAudio returns ok with that
\* metadata whether set succeeds or fails; the caller is never handed the
\* error of the cache, and an error it is handed is the remote lookup's.
C32_CacheFailureIsAMiss ==
    [][/\ cache'.ret \notin {"FileSystem"}
       /\ cache'.ret \notin {"", "ok"} => cache'.op = "resolveFails"
       /\ \A who \in Callers :
             LET l == cache.lookup[who]
                 l2 == cache'.lookup[who]
             IN /\ (cache'.who = who /\ cache'.op = "get" /\ cache'.error # "")
                   => /\ cache'.ret = ""
                      /\ l2.stage = "resolve" /\ l2.key = l.key
                /\ (cache'.who = who /\ cache'.op = "set")
                   => /\ l.stage = "set"
                      /\ cache'.ret = "ok" /\ cache'.info = l.entry.data]_vars

\* a get on a key that has an entry has just failed, and the caller is on to
\* the remote lookup
C32_Witness ==
    /\ cache.op = "get" /\ cache.error = "FileSystem"
    /\ cache.files[cache.key].present
    /\ cache.lookup[cache.who].stage = "resolve"

\* the track that is current in guild g leaves the current slot in this step
\* while the session lives on
LeavesCurrent(g) ==
    /\ queues[g].exists /\ queues'[g].exists
    /\ queues[g].currentTrack # NoTrack
    /\ queues'[g].currentTrack.id # queues[g].currentTrack.id

\* C33 (as claimed): a track that leaves the current slot of a session that
\* lives on is, in the same step, the entry appended to the history or back
\* in the pending sequence, whatever the loop mode, the skip flag and the
\* cause of the end.
C33_NoTrackIsLost ==
    [][\A g \in Guilds :
          LeavesCurrent(g)
          => \/ /\ queues'[g].trackHistory # queues[g].trackHistory
                /\ Last(queues'[g].trackHistory) = queues[g].currentTrack.id
             \/ queues[g].currentTrack.id \in PendingIds(queues'[g])]_vars

\* C34 (as claimed): the 'trackStart' of a play command that outlived the
\* leaveChannel of its session changes nothing in the session the guild has
\* by then: it stamps no startedAt on its current track, clears no pause
\* flag and moves no track.
C34_StaleEventsLeaveLaterSessions ==
    [][\A g \in Guilds :
          (last'.op = "StalePlayStarts" /\ last'.guild = g)
          => queues'[g] = queues[g]]_vars

\* the step is the write-back of caller who's get taking effect
WritesBack(who) == cache.lookup[who].stage = "write" /\ GetReturns(who)

\* C35 (as claimed): between the read and the write-back of a get nothing
\* else changes the entry.  When the write-back takes effect the file is
\* still there (cleanOldEntries has not removed it in between: no entry is
\* re-created) and still holds the data and createdAt the get read (no set
\* has stored a newer value in between: none is overwritten by an older one).
C35_GetWriteBackIsAtomic ==
    [][\A who \in Callers :
          WritesBack(who)
          => LET l == cache.lookup[who]
                 e == cache.files[l.key]
             IN /\ e.present
                /\ e.data = l.entry.data
                /\ e.createdAt = l.entry.createdAt]_vars

\* C36 (as claimed): a get serves an entry only while its accessedAt is within
\* the configured max age at the time of the read; an entry past the max age
\* that the periodic clean-up has not removed yet is neither returned as a hit
\* nor given a new accessedAt.
C36_ReadsAreWithinMaxAge ==
    [][\A who \in Callers :
          (cache.lookup[who].stage = "read" /\ cache'.lookup[who].stage = "write")
          => now - cache.files[cache.lookup[who].key].accessedAt
                <= CACHE_MAX_AGE_HOURS * HourMs]_vars

\* C37 (as claimed): a current track with startedAt set has spent no more
\* time paused than has passed since startedAt, so the playtime computed by
\* /nowplaying and by the end-of-track metrics,
\* now - startedAt - totalPausedDuration, is never negative.
C37_PlaytimeIsNeverNegative ==
    \A g \in Guilds :
        (queues[g].exists /\ queues[g].currentTrack # NoTrack
            /\ queues[g].currentTrack.state.startedAt # NoDate)
        => queues[g].currentTrack.state.totalPausedDuration
              <= now - queues[g].currentTrack.state.startedAt

\* C38 (as claimed): when joinChannel has returned success for a guild, the
\* guild has a connection and an audio player registered, so the play
\* command that follows is not rejected as 'Not connected'; an earlier
\* joinChannel that failed waiting for Ready changes nothing in that.
C38_JoinedMeansConnectionAndPlayer ==
    [][\A g \in Guilds :
          (last'.op = "JoinChannel" /\ last'.guild = g /\ joined'[g] > joined[g])
          => /\ voice'[g].connection
             /\ voice'[g].player # "none"
             /\ playYouTubeAudio(voice'[g], PlayCmd(g, NewTrack(1))) # voice'[g]]_vars

\* C39 (as claimed): a public queue operation that returns a Validation error
\* (skipTrack, setLoopMode, clearQueue, processQueue on an empty pending
\* sequence) leaves the registry and the transport as they were: no session
\* is created for an unknown guild and the current track of a playing session
\* is not cleared.
C39_ValidationErrorsChangeNothing ==
    [][last'.result = "Validation" => (queues' = queues /\ voice' = voice)]_vars

====
